---- MODULE Spec2Model ----
(***************************************************************************)
(* The request authentication gate of the Commvault MCP server             *)
(* (src/src/auth/auth_service.py, class AuthService): client-IP resolution *)
(* under proxy trust, the per-client failure records with exponential      *)
(* backoff, the secret and expiry checks, run by concurrent request        *)
(* threads over the class-level map _failed_attempts and _attempt_lock.    *)
(*                                                                         *)
(* Text values (header values, the configuration string, the secret) are   *)
(* sequences of chunks: a chunk is one separator character (" " or ",")    *)
(* or a maximal run of other characters ("Bearer", "10.0.0.1").  An IP     *)
(* address, once resolved, is the chunk itself.  Time is in whole seconds. *)
(***************************************************************************)
EXTENDS Integers, Sequences, FiniteSets, TLC

VARIABLES
    now,              \* the wall clock read by time.time()
    env_proxies,      \* os.environ["TRUSTED_PROXY_IPS"]
    proxy_cache,      \* the lru_cache of _get_trusted_proxy_ips, keyed by self
    store,            \* the keyring entries server_secret, server_secret_expiry
    failed_attempts,  \* AuthService._failed_attempts
    lock,             \* AuthService._attempt_lock: its holder
    pc,               \* each thread's position in is_client_token_valid
    req,              \* each thread's request (peer, X-Forwarded-For, Authorization)
    loc,              \* each thread's local variables
    steps,            \* each thread's completed steps of the current call
    decision,         \* each thread's returned value
    hist              \* per IP: failures recorded since the last reset, time of the last

vars == <<now, env_proxies, proxy_cache, store, failed_attempts, lock, pc, req,
          loc, steps, decision, hist>>

-----------------------------------------------------------------------------
(* Bounds of the model *)

NumThreads == 2     \* concurrent request threads
MaxTime == 2        \* the last second of the clock, where it ticks in seconds
CoarseStep == 16    \* seconds per tick, where one client retries over minutes
CoarseTicks == 11   \* the number of such ticks

NumInstances == 2   \* AuthService objects of the process
Threads == 1..NumThreads
Instances == 1..NumInstances
OneThread == {1}

-----------------------------------------------------------------------------
(* Values *)

NoValue == "<None>"         \* Python None where a one-chunk value is expected
NoIp == NoValue             \* ... where an address is expected
NoText == <<"<None>">>      \* Python None where a str is expected
NoThread == 0               \* the lock is not held
NotCached == {"<not cached>"}
NoDecision == [allowed |-> FALSE, reason |-> "<no decision>"]
Raised == [allowed |-> FALSE, reason |-> "<TypeError raised>"]
\* a variant that gives a reason with the permission
AllowWithReason == [allowed |-> TRUE, reason |-> "Authenticated."]
Allow == [allowed |-> TRUE, reason |-> NoValue]
Deny(reason) == [allowed |-> FALSE, reason |-> reason]

ReasonNoIp == "Unable to determine client IP address. Request rejected."
ReasonThrottled == "Too many attempts. Please try again later."
ReasonNoHeader == "Missing token in request."
ReasonNoSecret == "Server secrets missing. Please check server configuration."
ReasonNoExpiry ==
    "Server secret expiry is not set. Please rerun the setup script to configure the server secret with an expiration date."
ReasonExpired ==
    "Server secret has expired. Please regenerate the server secret using the setup script."
ReasonBadExpiry ==
    "Server secret expiry has an invalid format. Please rerun the setup script to regenerate the server secret."
ReasonInvalid == "Invalid token."

Whitespace == {" ", "\t"}

Min(a, b) == IF a <= b THEN a ELSE b

\* str.strip()
RECURSIVE LStrip(_)
LStrip(s) == IF s # <<>> /\ Head(s) \in Whitespace THEN LStrip(Tail(s)) ELSE s

RECURSIVE RStrip(_)
RStrip(s) ==
    IF s # <<>> /\ s[Len(s)] \in Whitespace THEN RStrip(SubSeq(s, 1, Len(s) - 1)) ELSE s

Strip(s) == RStrip(LStrip(s))

\* str.split(sep): the pieces between the occurrences of the one-character sep
RECURSIVE SplitFrom(_, _, _)
SplitFrom(s, sep, piece) ==
    IF s = <<>> THEN <<piece>>
    ELSE IF Head(s) = sep THEN <<piece>> \o SplitFrom(Tail(s), sep, <<>>)
    ELSE SplitFrom(Tail(s), sep, Append(piece, Head(s)))

Split(s, sep) == SplitFrom(s, sep, <<>>)

\* str.startswith("Bearer ")
StartsWithBearer(s) == Len(s) >= 2 /\ s[1] = "Bearer" /\ s[2] = " "

\* ipaddress.ip_address: the texts it accepts, and str() of the address it returns
IpTexts == {"10.0.0.1", "198.51.100.7", "203.0.113.5", "::1", "::0001"}
IpNormalForm(x) == IF x = "::0001" THEN "::1" ELSE x
\* a variant that accepts every word
ParsesAsWord(s) == Len(s) = 1
ParsesAsIp(s) == Len(s) = 1 /\ s[1] \in IpTexts

\* float(): the texts it accepts and the number it returns ("nan" is a float)
FloatTextsLax == {"1", "1000", "nan", "soon"}
FloatTexts == {"1", "1000", "nan"}
FloatOf(x) ==
    CASE x = "1" -> [nan |-> FALSE, val |-> 1]
      [] x = "1000" -> [nan |-> FALSE, val |-> 1000]
      [] OTHER -> [nan |-> TRUE, val |-> 0]

\* str.isascii, as hmac.compare_digest requires of both str arguments
NonAsciiChunks == {"s3cr(e-acute)t"}
IsAscii(s) == \A i \in 1..Len(s) : s[i] \notin NonAsciiChunks

-----------------------------------------------------------------------------
(* The functions of AuthService *)

\* _get_trusted_proxy_ips, the computation behind the cache
ParseTrustedProxies(config) ==
    LET text == Strip(config)
        parts == Split(text, ",")
    IN  IF text = <<>> THEN {}
        ELSE {IpNormalForm(Strip(parts[i])[1]) :
                i \in {j \in 1..Len(parts) : ParsesAsIp(Strip(parts[j]))}}

\* _is_valid_ip
IsValidIp(ip_str) == ParsesAsIp(Strip(ip_str))

\* a variant that takes a request without peer for a local one
GetDirectConnectionIpLocal(request) ==
    IF request.peer = NoIp THEN "::1" ELSE request.peer

\* _get_direct_connection_ip
GetDirectConnectionIp(request) == request.peer

\* a variant that trusts every peer
IsBehindAnyPeer(direct_ip, trusted_proxies) == direct_ip # NoIp

\* is_behind_trusted_proxy = direct_ip and direct_ip in trusted_proxies
IsBehindTrustedProxy(direct_ip, trusted_proxies) ==
    direct_ip # NoIp /\ direct_ip \in trusted_proxies

\* a variant that takes the last entry of the header
ForwardedLast(forwarded_for) ==
    Strip(Split(forwarded_for, ",")[Len(Split(forwarded_for, ","))])

\* client_ip = forwarded_for.split(",")[0].strip()
ForwardedClient(forwarded_for) == Strip(Split(forwarded_for, ",")[1])

\* _get_client_ip
GetClientIp(request, trusted_proxies) ==
    LET direct_ip == GetDirectConnectionIp(request)
        forwarded_for == request.xff
    IN  IF /\ IsBehindTrustedProxy(direct_ip, trusted_proxies)
           /\ forwarded_for # NoText
           /\ forwarded_for # <<>>
           /\ IsValidIp(ForwardedClient(forwarded_for))
        THEN ForwardedClient(forwarded_for)[1]
        ELSE direct_ip

\* mcp_client_token = auth_header.split(" ")[1] if auth_header.startswith("Bearer ") else auth_header
ExtractToken(auth_header) ==
    IF StartsWithBearer(auth_header) THEN Split(auth_header, " ")[2] ELSE auth_header

\* a variant that tests for the empty header instead
MissingHeaderEmpty(auth_header) == auth_header = <<>>

\* if auth_header is None
MissingHeader(auth_header) == auth_header = NoText

\* a variant that keeps the lock when the throttle check returns its denial
ReleasedOnFallThrough ==
    IF /\ lock # NoThread
       /\ pc[lock] = "check"
       /\ loc[lock].client_ip \in DOMAIN failed_attempts
       /\ loc[lock].current_time < failed_attempts[loc[lock].client_ip][2]
    THEN lock
    ELSE NoThread

\* a variant that leaves the lock with its holder
NotReleased == lock

\* the exit of a with self._attempt_lock block
Released == NoThread

\* a variant under which a record throttles for ever
IsThrottledAlways(current_time, record) == TRUE

\* a variant with the comparison turned around
IsThrottledInverted(current_time, record) == current_time > record[2]

\* current_time < next_allowed_time, on a record (attempt_count, next_allowed_time)
IsThrottled(current_time, record) == current_time < record[2]

\* a variant under which no secret expires
ExpiredNever(current_time, expiry_timestamp) == FALSE

\* a variant with the comparison turned around
ExpiredInverted(current_time, expiry_timestamp) ==
    ~expiry_timestamp.nan /\ current_time < expiry_timestamp.val

\* current_time > expiry_timestamp; every comparison with nan is False
Expired(current_time, expiry_timestamp) ==
    ~expiry_timestamp.nan /\ current_time > expiry_timestamp.val

\* hmac.compare_digest raises TypeError on a str that is not ASCII
CompareRaises(a, b) == ~IsAscii(a) \/ ~IsAscii(b)

\* a variant that compares the lengths only
CompareLengths(a, b) == Len(a) = Len(b)

\* hmac.compare_digest on two ASCII str
CompareDigest(a, b) == a = b

\* a variant whose delay shrinks with the count
DelayShrinking(attempt_count) == 64 \div (2 ^ attempt_count)

\* a variant without the cap
DelayUncapped(attempt_count) == (2 ^ attempt_count) \div 2

\* delay = min(0.5 * (2 ** attempt_count), 60.0), a whole number for attempt_count >= 1
Delay(attempt_count) == Min((2 ^ attempt_count) \div 2, 60)

\* a variant that starts every count over
FirstAttemptCount(attempts, client_ip) == 1

\* attempt_count of _record_failed_attempt
NextAttemptCount(attempts, client_ip) ==
    IF client_ip \in DOMAIN attempts THEN attempts[client_ip][1] + 1 ELSE 1

\* a variant that writes the record for every client
WithRecordForAll(attempts, client_ip, record) ==
    [ip \in DOMAIN attempts \cup {client_ip} |-> record]

\* self._failed_attempts[client_ip] = (attempt_count, next_allowed_time)
WithRecord(attempts, client_ip, record) ==
    [ip \in DOMAIN attempts \cup {client_ip} |->
        IF ip = client_ip THEN record ELSE attempts[ip]]

\* a variant that forgets every client
WithoutAnyRecord(attempts, client_ip) == <<>>

\* a variant that deletes nothing
WithoutRecordKept(attempts, client_ip) == attempts

\* if client_ip in self._failed_attempts: del self._failed_attempts[client_ip]
WithoutRecord(attempts, client_ip) ==
    [ip \in DOMAIN attempts \ {client_ip} |-> attempts[ip]]

\* a variant that excludes nobody
LockAlwaysFree == TRUE

\* threading.Lock: acquire succeeds only on a free lock
LockFree == lock = NoThread

-----------------------------------------------------------------------------
(* The state after construction *)

NoRequest == [service |-> 1, peer |-> NoIp, xff |-> NoText, auth |-> NoText]
NoLocals == [client_ip |-> NoIp, current_time |-> 0, remaining_time |-> 0,
             token |-> NoText, secret |-> NoText, expiry_str |-> NoValue,
             attempt_count |-> 0]
NoHistory == [failures |-> 0, last |-> 0]

InitWith(configs, stores) ==
    /\ now = 0
    /\ env_proxies \in configs
    /\ proxy_cache = [i \in Instances |-> NotCached]
    /\ store \in stores
    /\ failed_attempts = <<>>
    /\ lock = NoThread
    /\ pc = [t \in Threads |-> "idle"]
    /\ req = [t \in Threads |-> NoRequest]
    /\ loc = [t \in Threads |-> NoLocals]
    /\ steps = [t \in Threads |-> <<>>]
    /\ decision = [t \in Threads |-> NoDecision]
    /\ hist = [ip \in IpTexts |-> NoHistory]

-----------------------------------------------------------------------------
(* is_client_token_valid, one action per step *)

Goto(t, label) == pc' = [pc EXCEPT ![t] = label]
Did(t, step) == steps' = [steps EXCEPT ![t] = Append(@, step)]
Finish(t, d) == Goto(t, "done") /\ decision' = [decision EXCEPT ![t] = d]

\* request = get_http_request()
Receive(t, requests) ==
    /\ pc[t] = "idle"
    /\ \E r \in requests : req' = [req EXCEPT ![t] = r]
    /\ Goto(t, "resolve")
    /\ UNCHANGED <<now, env_proxies, proxy_cache, store, failed_attempts, lock,
                   loc, steps, decision, hist>>

\* client_ip = self._get_client_ip(request) ... current_time = time.time()
ResolveClient(t) ==
    /\ pc[t] = "resolve"
    /\ LET self == req[t].service
           trusted == IF proxy_cache[self] = NotCached
                      THEN ParseTrustedProxies(env_proxies) ELSE proxy_cache[self]
           client_ip == GetClientIp(req[t], trusted)
       IN  /\ proxy_cache' = [proxy_cache EXCEPT ![self] = trusted]
           /\ IF client_ip = NoIp
              THEN /\ Finish(t, Deny(ReasonNoIp))
                   /\ UNCHANGED loc
              ELSE /\ loc' = [loc EXCEPT ![t].client_ip = client_ip,
                                         ![t].current_time = now]
                   /\ Goto(t, "check_lock")
                   /\ UNCHANGED decision
    /\ Did(t, "client_ip")
    /\ UNCHANGED <<now, env_proxies, store, failed_attempts, lock, req, hist>>

\* with self._attempt_lock:  (rate-limit check)
EnterCheck(t) ==
    /\ pc[t] = "check_lock"
    /\ LockFree
    /\ lock' = t
    /\ Goto(t, "check")
    /\ UNCHANGED <<now, env_proxies, proxy_cache, store, failed_attempts, req,
                   loc, steps, decision, hist>>

\* a variant of the throttle check that counts the request it denies
CheckThrottleCounting(t) ==
    /\ pc[t] = "check"
    /\ IF /\ loc[t].client_ip \in DOMAIN failed_attempts
          /\ IsThrottled(loc[t].current_time, failed_attempts[loc[t].client_ip])
       THEN /\ failed_attempts' =
                 [failed_attempts EXCEPT ![loc[t].client_ip] = <<@[1] + 1, @[2]>>]
            /\ Finish(t, Deny(ReasonThrottled))
       ELSE Goto(t, "header") /\ UNCHANGED <<failed_attempts, decision>>
    /\ lock' = NoThread
    /\ Did(t, "throttle")
    /\ UNCHANGED <<now, env_proxies, proxy_cache, store, req, loc, hist>>

\* if client_ip in self._failed_attempts: ... remaining_time = ... (logged)
\* ... return False, "Too many attempts..."
CheckThrottle(t) ==
    /\ pc[t] = "check"
    /\ IF /\ loc[t].client_ip \in DOMAIN failed_attempts
          /\ IsThrottled(loc[t].current_time, failed_attempts[loc[t].client_ip])
       THEN /\ loc' = [loc EXCEPT ![t].remaining_time =
                          failed_attempts[loc[t].client_ip][2] - loc[t].current_time]
            /\ Finish(t, Deny(ReasonThrottled))
       ELSE Goto(t, "header") /\ UNCHANGED <<loc, decision>>
    /\ lock' = Released
    /\ Did(t, "throttle")
    /\ UNCHANGED <<now, env_proxies, proxy_cache, store, failed_attempts, req, hist>>

\* auth_header = request.headers.get("Authorization") ... mcp_client_token = ...
ReadHeader(t) ==
    /\ pc[t] = "header"
    /\ IF MissingHeader(req[t].auth)
       THEN Finish(t, Deny(ReasonNoHeader)) /\ UNCHANGED loc
       ELSE /\ loc' = [loc EXCEPT ![t].token = ExtractToken(req[t].auth)]
            /\ Goto(t, "secret")
            /\ UNCHANGED decision
    /\ Did(t, "header")
    /\ UNCHANGED <<now, env_proxies, proxy_cache, store, failed_attempts, lock,
                   req, hist>>

\* secret = keyring.get_password(self.__service_name, "server_secret")
ReadSecret(t) ==
    /\ pc[t] = "secret"
    /\ loc' = [loc EXCEPT ![t].secret = store.secret]
    /\ IF store.secret = NoText
       THEN Finish(t, Deny(ReasonNoSecret))
       ELSE Goto(t, "expiry") /\ UNCHANGED decision
    /\ Did(t, "get_secret")
    /\ UNCHANGED <<now, env_proxies, proxy_cache, store, failed_attempts, lock,
                   req, hist>>

\* expiry_str = keyring.get_password(...) ... float(expiry_str) ... current_time > expiry_timestamp
ReadExpiry(t) ==
    /\ pc[t] = "expiry"
    /\ LET expiry_str == store.expiry
       IN  /\ loc' = [loc EXCEPT ![t].expiry_str = expiry_str]
           /\ IF expiry_str = NoValue THEN Finish(t, Deny(ReasonNoExpiry))
              ELSE IF expiry_str \notin FloatTexts THEN Finish(t, Deny(ReasonBadExpiry))
              ELSE IF Expired(loc[t].current_time, FloatOf(expiry_str))
                   THEN Finish(t, Deny(ReasonExpired))
              ELSE Goto(t, "compare") /\ UNCHANGED decision
    /\ Did(t, "get_expiry")
    /\ UNCHANGED <<now, env_proxies, proxy_cache, store, failed_attempts, lock,
                   req, hist>>

\* if not hmac.compare_digest(mcp_client_token, secret):
Compare(t) ==
    /\ pc[t] = "compare"
    /\ IF CompareRaises(loc[t].token, loc[t].secret) THEN Finish(t, Raised)
       ELSE IF ~CompareDigest(loc[t].token, loc[t].secret)
            THEN Goto(t, "record_lock") /\ UNCHANGED decision
       ELSE Goto(t, "reset_lock") /\ UNCHANGED decision
    /\ Did(t, "compare")
    /\ UNCHANGED <<now, env_proxies, proxy_cache, store, failed_attempts, lock,
                   req, loc, hist>>

\* _record_failed_attempt: with self._attempt_lock:
EnterRecord(t) ==
    /\ pc[t] = "record_lock"
    /\ LockFree
    /\ lock' = t
    /\ Goto(t, "record_read")
    /\ UNCHANGED <<now, env_proxies, proxy_cache, store, failed_attempts, req,
                   loc, steps, decision, hist>>

\* _record_failed_attempt: attempt_count = ... + 1, or 1
RecordRead(t) ==
    /\ pc[t] = "record_read"
    /\ loc' = [loc EXCEPT ![t].attempt_count =
                  NextAttemptCount(failed_attempts, loc[t].client_ip)]
    /\ Goto(t, "record_write")
    /\ UNCHANGED <<now, env_proxies, proxy_cache, store, failed_attempts, lock,
                   req, steps, decision, hist>>

\* _record_failed_attempt: delay, next_allowed_time, the store into the map;
\* then return False, "Invalid token."
RecordWrite(t) ==
    /\ pc[t] = "record_write"
    /\ LET attempt_count == loc[t].attempt_count
           next_allowed_time == now + Delay(attempt_count)
       IN  failed_attempts' = WithRecord(failed_attempts, loc[t].client_ip,
                                         <<attempt_count, next_allowed_time>>)
    /\ hist' = [hist EXCEPT ![loc[t].client_ip] =
                   [@ EXCEPT !.failures = @ + 1, !.last = now]]
    /\ lock' = Released
    /\ Finish(t, Deny(ReasonInvalid))
    /\ Did(t, "record")
    /\ UNCHANGED <<now, env_proxies, proxy_cache, store, req, loc>>

\* _reset_failed_attempts: with self._attempt_lock:
EnterReset(t) ==
    /\ pc[t] = "reset_lock"
    /\ LockFree
    /\ lock' = t
    /\ Goto(t, "reset")
    /\ UNCHANGED <<now, env_proxies, proxy_cache, store, failed_attempts, req,
                   loc, steps, decision, hist>>

\* _reset_failed_attempts: the deletion; then return True, None
ResetAttempts(t) ==
    /\ pc[t] = "reset"
    /\ failed_attempts' = WithoutRecord(failed_attempts, loc[t].client_ip)
    /\ hist' = [hist EXCEPT ![loc[t].client_ip] = NoHistory]
    /\ lock' = Released
    /\ Finish(t, Allow)
    /\ Did(t, "reset")
    /\ UNCHANGED <<now, env_proxies, proxy_cache, store, req, loc>>

\* the call has returned; the thread takes its next request
Return(t) ==
    /\ pc[t] = "done"
    /\ Goto(t, "idle")
    /\ req' = [req EXCEPT ![t] = NoRequest]
    /\ loc' = [loc EXCEPT ![t] = NoLocals]
    /\ steps' = [steps EXCEPT ![t] = <<>>]
    /\ decision' = [decision EXCEPT ![t] = NoDecision]
    /\ UNCHANGED <<now, env_proxies, proxy_cache, store, failed_attempts, lock, hist>>

\* os.environ["TRUSTED_PROXY_IPS"] is set to another value while the process runs
SetEnv(configs) ==
    /\ \E config \in configs \ {env_proxies} : env_proxies' = config
    /\ UNCHANGED <<now, proxy_cache, store, failed_attempts, lock, pc, req, loc,
                   steps, decision, hist>>

\* secrets.token_urlsafe(32): some of the texts it returns
GeneratedSecrets == {<<"s3cr3t">>, <<"t0k3n">>}

\* setup.py, prompt_and_save_keyring without OAuth: the keyring entries it writes
\* that the gate reads
Setup ==
    /\ \E server_secret \in GeneratedSecrets \ {store.secret} :
         store' = [store EXCEPT !.secret = server_secret]
    /\ UNCHANGED <<now, env_proxies, proxy_cache, failed_attempts, lock, pc, req,
                   loc, steps, decision, hist>>

\* a variant of the clock under which an elapsed record is forgotten
TickExpiring(step, horizon) ==
    /\ now + step <= horizon
    /\ now' = now + step
    /\ failed_attempts' =
          [ip \in {i \in DOMAIN failed_attempts : failed_attempts[i][2] > now'} |->
              failed_attempts[ip]]
    /\ UNCHANGED <<env_proxies, proxy_cache, store, lock, pc, req, loc, steps,
                   decision, hist>>

\* the clock advances
Tick(step, horizon) ==
    /\ now + step <= horizon
    /\ now' = now + step
    /\ UNCHANGED <<env_proxies, proxy_cache, store, failed_attempts, lock, pc,
                   req, loc, steps, decision, hist>>

-----------------------------------------------------------------------------------------------------------------------------------------------------
(* The environment: requests, configuration, keyring contents *)

\* a request served by the AuthService object i; by the first one where not said
RequestOn(i, p, x, a) == [service |-> i, peer |-> p, xff |-> x, auth |-> a]
Request(p, x, a) == RequestOn(1, p, x, a)
Bearer(word) == <<"Bearer", " ", word>>
Secret == <<"s3cr3t">>
Forwarded == <<"203.0.113.5", ",", " ", "10.0.0.1">>
KeyringEntries(secret, expiry) == [secret |-> secret, expiry |-> expiry]

\* a client at 198.51.100.7, another behind the proxy 10.0.0.1, a request without peer
CoreRequests ==
    {Request("198.51.100.7", NoText, a) : a \in {NoText, Bearer("s3cr3t"), Bearer("wrong")}}
    \cup {Request("10.0.0.1", Forwarded, Bearer("wrong")),
          Request(NoIp, Forwarded, Bearer("s3cr3t"))}

CoreConfigs == {<<"10.0.0.1">>}

CoreStores ==
    {KeyringEntries(NoText, NoValue), KeyringEntries(Secret, NoValue),
     KeyringEntries(Secret, "soon"), KeyringEntries(Secret, "1"),
     KeyringEntries(Secret, "1000")}

\* every shape of peer, X-Forwarded-For, Authorization, configuration and keyring
AllPeers == {"10.0.0.1", "198.51.100.7", "::1", NoIp}

AllForwarded ==
    {NoText, <<>>, Forwarded,
     <<" ", "203.0.113.5", "\t", ",", "10.0.0.1">>,
     <<"bogus", ",", "203.0.113.5">>,
     <<",", "203.0.113.5">>,
     <<"203.0.113.5", " ", "198.51.100.7">>,
     <<"::0001">>}

AllAuthorizations ==
    {NoText, <<>>, Bearer("s3cr3t"), Bearer("wrong"), Secret, <<"Bearer">>, <<"Bearer", " ">>,
     <<"bearer", " ", "s3cr3t">>,
     <<"Bearer", " ", " ", "s3cr3t">>,
     <<"Bearer", " ", "s3cr3t", " ", "extra">>,
     <<"Bearer", " ", "pass", " ", "phrase">>,
     Bearer("s3cr(e-acute)t")}

AllRequests ==
    {Request(p, x, NoText) : p \in AllPeers, x \in AllForwarded}
    \cup {Request(p, NoText, a) : p \in {"198.51.100.7", NoIp}, a \in AllAuthorizations}
    \cup CoreRequests

AllConfigs ==
    {<<>>, <<" ">>, <<"10.0.0.1">>,
     <<" ", "10.0.0.1", " ", ",", "bogus", ",", ",", "::0001">>}

AllStores ==
    {KeyringEntries(s, e) : s \in {NoText, Secret},
                            e \in {NoValue, "soon", "1", "1000", "nan"}}
    \cup {KeyringEntries(<<"pass", " ", "phrase">>, "1000"),
          KeyringEntries(<<>>, "1000")}

\* one client, right or wrong
RetryRequests == {Request("198.51.100.7", NoText, a) : a \in {Bearer("s3cr3t"), Bearer("wrong")}}
RetryStores == {KeyringEntries(Secret, "1000")}

\* a client behind the proxy 10.0.0.1, served by any AuthService object, while
\* the configuration of the proxies changes between that proxy and none
ReconfigRequests ==
    {RequestOn(i, "10.0.0.1", Forwarded, a) :
        i \in Instances, a \in {Bearer("s3cr3t"), Bearer("wrong")}}
ReconfigConfigs == {<<"10.0.0.1">>, <<>>}

\* a client presenting a generated secret; a keyring without server_secret, with
\* or without a server_secret_expiry written by other means
SetupRequests ==
    {Request("198.51.100.7", NoText, Bearer(secret[1])) : secret \in GeneratedSecrets}
SetupStores == {KeyringEntries(NoText, NoValue), KeyringEntries(NoText, "1000")}

\* one client guessing, from every thread at once
GuessRequests == {Request("198.51.100.7", NoText, Bearer("wrong"))}

-----------------------------------------------------------------------------
(* The server: NumThreads request threads, the clock in seconds *)

\* the steps up to the comparison, and those of _record_failed_attempt
HandleDenied(t) ==
    \/ ResolveClient(t)
    \/ EnterCheck(t)
    \/ CheckThrottle(t)
    \/ ReadHeader(t)
    \/ ReadSecret(t)
    \/ ReadExpiry(t)
    \/ Compare(t)
    \/ EnterRecord(t)
    \/ RecordRead(t)
    \/ RecordWrite(t)
    \/ Return(t)

\* those of _reset_failed_attempts
HandleAllowed(t) ==
    \/ EnterReset(t)
    \/ ResetAttempts(t)

Handle(t) == HandleDenied(t) \/ HandleAllowed(t)

Init == InitWith(CoreConfigs, CoreStores)

Next ==
    \/ \E t \in Threads : Receive(t, CoreRequests)
    \/ \E t \in Threads : Handle(t)
    \/ Tick(1, MaxTime)

Spec == Init /\ [][Next]_vars

(* One thread, every shape of input *)

InitInputs == InitWith(AllConfigs, AllStores)

NextInputs ==
    \/ \E t \in OneThread : Receive(t, AllRequests)
    \/ \E t \in OneThread : Handle(t)
    \/ Tick(1, MaxTime)

SpecInputs == InitInputs /\ [][NextInputs]_vars

(* One thread, one client retrying over minutes; the clock in steps of CoarseStep *)

InitRetry == InitWith(CoreConfigs, RetryStores)

NextRetry ==
    \/ \E t \in OneThread : Receive(t, RetryRequests)
    \/ \E t \in OneThread : Handle(t)
    \/ Tick(CoarseStep, CoarseStep * CoarseTicks)

SpecRetry == InitRetry /\ [][NextRetry]_vars

(* The same, the clock advancing while it can, the client sending request after *)
(* request and the thread that serves them running on *)

SpecRetryFair ==
    /\ SpecRetry
    /\ WF_vars(Tick(CoarseStep, CoarseStep * CoarseTicks))
    /\ WF_vars(\E t \in OneThread : Receive(t, RetryRequests) \/ Handle(t))

(* One thread, several AuthService objects, TRUSTED_PROXY_IPS changing *)

InitReconfig == InitWith(ReconfigConfigs, RetryStores)

NextReconfig ==
    \/ \E t \in OneThread : Receive(t, ReconfigRequests)
    \/ \E t \in OneThread : Handle(t)
    \/ Tick(1, MaxTime)
    \/ SetEnv(ReconfigConfigs)

SpecReconfig == InitReconfig /\ [][NextReconfig]_vars

(* One thread, the setup script run on a keyring without server secret *)

InitSetup == InitWith(CoreConfigs, SetupStores)

NextSetup ==
    \/ \E t \in OneThread : Receive(t, SetupRequests)
    \/ \E t \in OneThread : Handle(t)
    \/ Tick(1, MaxTime)
    \/ Setup

SpecSetup == InitSetup /\ [][NextSetup]_vars

(* NumThreads threads, one client guessing: no request is ever allowed *)

NextGuess ==
    \/ \E t \in Threads : Receive(t, GuessRequests)
    \/ \E t \in Threads : HandleDenied(t)
    \/ Tick(1, MaxTime)

SpecGuess == InitRetry /\ [][NextGuess]_vars

-----------------------------------------------------------------------------
(* Properties *)

Called(t) == pc[t] \notin {"idle", "resolve"}
Returned(t) == pc[t] = "done"
Record(ip) == failed_attempts[ip]
HasRecord(ip) == ip \in DOMAIN failed_attempts
TrustedFor(t) == proxy_cache[req[t].service]
PathOf(t) == {steps[t][i] : i \in 1..Len(steps[t])}

\* C1: a request whose throttle check finds a record of its client IP with the
\* time (the clock's, or the time the request sampled) before next_allowed_time
\* is denied as throttled, whatever it presents; a call denied as throttled has
\* read no keyring entry and compared nothing: its only steps are the IP
\* resolution and the throttle check.
C1_ThrottledBeforeSecret ==
    /\ [][\A t \in Threads :
            (/\ pc[t] = "check"
             /\ pc'[t] # "check"
             /\ HasRecord(loc[t].client_ip)
             /\ \/ loc[t].current_time < Record(loc[t].client_ip)[2]
                \/ now < Record(loc[t].client_ip)[2])
            => /\ pc'[t] = "done"
               /\ decision'[t] = Deny(ReasonThrottled)
               /\ steps'[t] = <<"client_ip", "throttle">>]_vars
    /\ [](\A t \in Threads :
            decision[t] = Deny(ReasonThrottled)
            => /\ steps[t] = <<"client_ip", "throttle">>
               /\ loc[t].secret = NoText
               /\ loc[t].expiry_str = NoValue)

\* C1 witness: a request with the right credential, the secret unexpired, denied as throttled
C1_Witness ==
    \E t \in Threads :
        /\ decision[t] = Deny(ReasonThrottled)
        /\ req[t].auth = Bearer("s3cr3t")
        /\ store = KeyringEntries(Secret, "1000")

\* C2: a call returns allowed only after the full sequence of steps, with a client
\* IP, an Authorization header, the secret and the expiry both read from the
\* keyring, the expiry a number the sampled time does not exceed, and the
\* presented token equal to the secret; and the throttle check lets a request
\* through only when it finds no record that throttles it.
C2_AllowedOnlyIf ==
    /\ [](\A t \in Threads :
            decision[t].allowed
            => /\ steps[t] = <<"client_ip", "throttle", "header", "get_secret",
                               "get_expiry", "compare", "reset">>
               /\ loc[t].client_ip # NoIp
               /\ req[t].auth # NoText
               /\ loc[t].secret # NoText
               /\ loc[t].secret = store.secret
               /\ loc[t].expiry_str = store.expiry
               /\ loc[t].expiry_str \in {"1", "1000", "nan"}
               /\ (loc[t].expiry_str = "1" => loc[t].current_time <= 1)
               /\ loc[t].token = loc[t].secret)
    /\ [][\A t \in Threads :
            (pc[t] = "check" /\ pc'[t] = "header")
            => ~(/\ HasRecord(loc[t].client_ip)
                 /\ loc[t].current_time < Record(loc[t].client_ip)[2])]_vars

\* C2 witness: an allowed request
C2_Witness ==
    \E t \in Threads : Returned(t) /\ decision[t] = Allow

\* C3: when the direct peer is not in the trusted-proxy set the resolved client
\* IP is the direct peer address, whatever X-Forwarded-For holds; any two
\* requests from such a peer resolve to the same address.
C3_UntrustedPeerIgnoresForwarded ==
    /\ \A t \in Threads :
        (Called(t) /\ req[t].peer \notin TrustedFor(t))
        => /\ loc[t].client_ip = req[t].peer
           /\ (Returned(t) /\ req[t].peer = NoIp => decision[t] = Deny(ReasonNoIp))
    /\ \A t \in Threads :
        (Called(t) /\ req[t].peer \notin TrustedFor(t))
        => \A x \in AllForwarded :
            GetClientIp(Request(req[t].peer, x, req[t].auth), TrustedFor(t))
                = loc[t].client_ip

\* C3 witness: an untrusted peer naming another valid address in X-Forwarded-For
C3_Witness ==
    \E t \in Threads :
        /\ Called(t)
        /\ TrustedFor(t) = {"10.0.0.1", "::1"}
        /\ req[t].peer = "198.51.100.7"
        /\ req[t].xff = Forwarded
        /\ loc[t].client_ip = "198.51.100.7"

\* C4: when the direct peer is a trusted proxy and the request carries
\* X-Forwarded-For, the resolved client IP is the header's first comma-separated
\* entry, trimmed, when that is an IP address, and the direct peer otherwise.
C4_TrustedPeerHonoursForwarded ==
    \A t \in Threads :
        (Called(t) /\ req[t].peer \in TrustedFor(t) /\ req[t].xff # NoText)
        => LET first == Strip(Head(Split(req[t].xff, ",")))
           IN  loc[t].client_ip =
                   IF Len(first) = 1 /\ first[1] \in IpTexts THEN first[1] ELSE req[t].peer

\* C4 witness: peer 10.0.0.1, X-Forwarded-For "203.0.113.5, 10.0.0.1", resolved 203.0.113.5
C4_Witness ==
    \E t \in Threads :
        /\ Called(t)
        /\ req[t].peer = "10.0.0.1"
        /\ req[t].xff = Forwarded
        /\ TrustedFor(t) = {"10.0.0.1"}
        /\ loc[t].client_ip = "203.0.113.5"

\* the delays of the spec: 1, 2, 4, 8, 16, 32 seconds, then 60
BackoffSeconds(n) == IF n >= 7 THEN 60 ELSE <<1, 2, 4, 8, 16, 32>>[n]

\* C5: a record holds the number N >= 1 of failures recorded for its IP since it
\* was created, and next_allowed_time = t + min(0.5 * 2^N, 60) s with t the time
\* at which the N-th was recorded: t + 1, 2, 4, 8, 16, 32, then t + 60.
C5_ExponentialBackoff ==
    \A ip \in DOMAIN failed_attempts :
        /\ hist[ip].failures >= 1
        /\ Record(ip) = <<hist[ip].failures,
                          hist[ip].last + BackoffSeconds(hist[ip].failures)>>

\* C5 witness: an eighth consecutive failure, its delay capped at 60 s
C5_Witness ==
    \E ip \in DOMAIN failed_attempts :
        /\ hist[ip].failures = 8
        /\ Record(ip) = <<8, hist[ip].last + 60>>

\* C6: the step of _reset_failed_attempts leaves no record for the client IP,
\* whether one existed or not, and touches no other record; no record exists
\* while no failure was recorded since the last success; a failure recorded when
\* the IP has no record creates the record (1, t + 1 s).
C6_SuccessClearsRecord ==
    /\ [][\A t \in Threads :
            (pc[t] = "reset" /\ pc'[t] = "done")
            => /\ decision'[t] = Allow
               /\ DOMAIN failed_attempts' = DOMAIN failed_attempts \ {loc[t].client_ip}
               /\ \A ip \in DOMAIN failed_attempts' :
                    failed_attempts'[ip] = failed_attempts[ip]]_vars
    /\ [][\A t \in Threads :
            (pc[t] = "record_write" /\ pc'[t] = "done" /\ ~HasRecord(loc[t].client_ip))
            => failed_attempts'[loc[t].client_ip] = <<1, now + 1>>]_vars
    /\ [](\A ip \in IpTexts : hist[ip].failures = 0 => ~HasRecord(ip))

\* C6 witness: a request allowed, and after it a failure from the same IP, recorded as the first
C6_Witness ==
    \E t, u \in Threads :
        /\ decision[t] = Allow
        /\ decision[u] = Deny(ReasonInvalid)
        /\ loc[t].client_ip = loc[u].client_ip
        /\ HasRecord(loc[u].client_ip)
        /\ Record(loc[u].client_ip) = <<1, hist[loc[u].client_ip].last + 1>>

\* C7: the attempt_count of a record is the number of failures recorded for its
\* IP since the record was created, under every interleaving of the threads: no
\* update is lost.
C7_NoLostUpdate ==
    \A ip \in DOMAIN failed_attempts : Record(ip)[1] = hist[ip].failures

\* C7 witness: every thread made one failing attempt at time 0, all past the throttle
\* check before any recorded, and the count is the number of threads
C7_Witness ==
    /\ \A t \in Threads :
        /\ decision[t] = Deny(ReasonInvalid)
        /\ loc[t].current_time = 0
        /\ loc[t].client_ip = "198.51.100.7"
    /\ HasRecord("198.51.100.7")
    /\ Record("198.51.100.7")[1] = NumThreads
    /\ hist["198.51.100.7"].failures = NumThreads

\* C8: a request that has passed the throttle check does not hold the lock until
\* it enters _record_failed_attempt or _reset_failed_attempts: the check and the
\* recording are two critical sections, and other requests run between them.
C8_CheckAndRecordNotAtomic ==
    \A t \in Threads :
        pc[t] \in {"header", "secret", "expiry", "compare", "record_lock", "reset_lock"}
        => lock # t

\* C8 witness: two requests from one IP, both past the throttle check and at the
\* comparison with a wrong token, no failure recorded yet
C8_Witness ==
    \E t, u \in Threads :
        /\ t # u
        /\ pc[t] = "compare" /\ pc[u] = "compare"
        /\ loc[t].client_ip = loc[u].client_ip
        /\ loc[t].token # loc[t].secret /\ loc[u].token # loc[u].secret
        /\ ~HasRecord(loc[t].client_ip)
        /\ hist[loc[t].client_ip].failures = 0

\* C9: a request past the throttle check that presents the right secret while the
\* stored expiry (1) lies before its sampled time is denied as expired; none of
\* its steps changes the map of failure records, and it records nothing.
C9_ExpiredSecretNotCounted ==
    /\ [][\A t \in Threads :
            (/\ req[t].auth = Bearer("s3cr3t")
             /\ store = KeyringEntries(Secret, "1")
             /\ loc[t].current_time > 1
             /\ pc[t] \in {"header", "secret", "expiry"}
             /\ pc'[t] # pc[t])
            => /\ failed_attempts' = failed_attempts
               /\ pc'[t] \in {"secret", "expiry", "done"}
               /\ (pc'[t] = "done" => decision'[t] = Deny(ReasonExpired))]_vars
    /\ [](\A t \in Threads :
            decision[t] = Deny(ReasonExpired)
            => PathOf(t) \cap {"compare", "record", "reset"} = {})

\* C9 witness: the right secret denied as expired, the record of its IP still there
C9_Witness ==
    \E t \in Threads :
        /\ decision[t] = Deny(ReasonExpired)
        /\ req[t].auth = Bearer("s3cr3t")
        /\ HasRecord(loc[t].client_ip)

\* C10: a request without Authorization header that passes the throttle check is
\* denied as missing its token, and no step of a header-less request changes the
\* map of failure records.
C10_MissingHeaderNotCounted ==
    [][\A t \in Threads :
        (req[t].auth = NoText /\ pc'[t] # pc[t])
        => /\ failed_attempts' = failed_attempts
           /\ (pc[t] = "header"
               => pc'[t] = "done" /\ decision'[t] = Deny(ReasonNoHeader))]_vars

\* C10 witness: a header-less request denied while its IP has a record
C10_Witness ==
    \E t \in Threads :
        /\ decision[t] = Deny(ReasonNoHeader)
        /\ HasRecord(loc[t].client_ip)

\* keyring contents under which the server cannot check any credential, and the
\* reason is_client_token_valid gives for each
Misconfigured(entries) ==
    \/ entries.secret = NoText
    \/ entries.expiry = NoValue
    \/ entries.expiry = "soon"
OperationalReason(entries) ==
    IF entries.secret = NoText THEN ReasonNoSecret
    ELSE IF entries.expiry = NoValue THEN ReasonNoExpiry
    ELSE ReasonBadExpiry

\* C11: while the stored secret is absent, the stored expiry is absent, or the
\* stored expiry is no number, a request with an Authorization header that has
\* passed the throttle check is denied with the operational reason of the first
\* of these, whatever its credential; it compares nothing, records nothing, and
\* none of its steps changes the map of failure records.
C11_MisconfiguredDeniesOperational ==
    /\ [][\A t \in Threads :
            (/\ req[t].auth # NoText
             /\ Misconfigured(store)
             /\ pc[t] \in {"header", "secret", "expiry"}
             /\ pc'[t] # pc[t])
            => /\ failed_attempts' = failed_attempts
               /\ pc'[t] \in {"secret", "expiry", "done"}
               /\ (pc'[t] = "done"
                   => decision'[t] = Deny(OperationalReason(store)))]_vars
    /\ [](\A t \in Threads :
            (/\ Returned(t)
             /\ Misconfigured(store)
             /\ req[t].auth # NoText
             /\ "throttle" \in PathOf(t)
             /\ decision[t] # Deny(ReasonThrottled))
            => /\ decision[t] = Deny(OperationalReason(store))
               /\ PathOf(t) \cap {"compare", "record", "reset"} = {})

\* C11 witness: the right credential denied because the stored expiry is no number
C11_Witness ==
    \E t \in Threads :
        /\ Returned(t)
        /\ store = KeyringEntries(Secret, "soon")
        /\ req[t].auth = Bearer("s3cr3t")
        /\ decision[t] = Deny(ReasonBadExpiry)

\* C12: a request without peer address is denied at the IP resolution as of
\* unknown client, whatever its X-Forwarded-For and Authorization headers and
\* whatever the trusted proxies; that is the only step of its call: it takes no
\* lock, reads no record and no keyring entry, and changes no record.
C12_NoPeerAlwaysDenied ==
    /\ [][\A t \in Threads :
            (pc[t] = "resolve" /\ req[t].peer = NoIp /\ pc'[t] # pc[t])
            => /\ pc'[t] = "done"
               /\ decision'[t] = Deny(ReasonNoIp)
               /\ failed_attempts' = failed_attempts
               /\ lock' = lock]_vars
    /\ [](\A t \in Threads :
            (Called(t) /\ req[t].peer = NoIp)
            => /\ Returned(t)
               /\ decision[t] = Deny(ReasonNoIp)
               /\ steps[t] = <<"client_ip">>
               /\ loc[t] = NoLocals
               /\ lock # t)

\* C12 witness: no peer, a valid X-Forwarded-For naming a trusted proxy, the right credential
C12_Witness ==
    \E t \in Threads :
        /\ Returned(t)
        /\ req[t] = Request(NoIp, Forwarded, Bearer("s3cr3t"))
        /\ TrustedFor(t) = {"10.0.0.1"}
        /\ store = KeyringEntries(Secret, "1000")
        /\ decision[t] = Deny(ReasonNoIp)

\* a request with the right credential while the keyring holds the secret, unexpired
RightCredential(t) ==
    /\ req[t].auth = Bearer("s3cr3t")
    /\ store = KeyringEntries(Secret, "1000")
\* the steps of thread t
StepOf(t) == pc'[t] # pc[t]

\* C13 as stated: no step of a request presenting the correct, unexpired secret
\* changes the map of failure records, and such a request past the throttle
\* check is allowed.
C13_SuccessLeavesMapUnchanged ==
    [][\A t \in Threads :
        (RightCredential(t) /\ StepOf(t))
        => /\ failed_attempts' = failed_attempts
           /\ (pc'[t] = "done" /\ "header" \in PathOf(t) => decision'[t] = Allow)]_vars

\* C13, amended: a request presenting the correct, unexpired secret that has
\* passed the throttle check goes through every later check and is allowed; its
\* only change to the map of failure records is the removal of the record of its
\* own client IP, made by its last step: the map is unchanged when that IP has no
\* record, and the records of other IPs are kept as they are.
C13_SuccessRemovesOnlyOwnRecord ==
    [][\A t \in Threads :
        (RightCredential(t) /\ StepOf(t))
        => /\ pc[t] = "header" => pc'[t] = "secret"
           /\ pc[t] = "secret" => pc'[t] = "expiry"
           /\ pc[t] = "expiry" => pc'[t] = "compare"
           /\ pc[t] = "compare" => pc'[t] = "reset_lock"
           /\ pc[t] = "reset_lock" => pc'[t] = "reset"
           /\ pc[t] = "reset" => pc'[t] = "done" /\ decision'[t] = Allow
           /\ IF pc[t] = "reset"
              THEN /\ failed_attempts' =
                        [ip \in DOMAIN failed_attempts \ {loc[t].client_ip} |->
                            failed_attempts[ip]]
                   /\ (~HasRecord(loc[t].client_ip)
                       => failed_attempts' = failed_attempts)
              ELSE failed_attempts' = failed_attempts]_vars

\* C13 witness: the right credential accepted by the comparison and about to be
\* allowed, while its IP has a record whose backoff has elapsed and another IP
\* has a record too
C13_Witness ==
    \E t \in Threads :
        /\ RightCredential(t)
        /\ pc[t] = "reset"
        /\ HasRecord(loc[t].client_ip)
        /\ loc[t].current_time >= Record(loc[t].client_ip)[2]
        /\ \E ip \in DOMAIN failed_attempts : ip # loc[t].client_ip

\* a request with a wrong credential while the keyring holds the secret, unexpired
WrongCredential(t) ==
    /\ req[t].auth = Bearer("wrong")
    /\ store = KeyringEntries(Secret, "1000")
\* the delay of the record of ip: from the time it was written to next_allowed_time
DelayInForce(attempts, history, ip) ==
    IF ip \in DOMAIN attempts THEN attempts[ip][2] - history[ip].last ELSE 0

\* C14 as stated: every wrong-credential request of a run of up to five from one
\* IP is denied and leaves a longer delay in force than it found: 1 s after the
\* first, twice the previous one after each later one.
C14_EveryRequestRaisesDelay ==
    [][\A t \in Threads :
        (/\ WrongCredential(t)
         /\ StepOf(t)
         /\ pc'[t] = "done"
         /\ hist[loc[t].client_ip].failures < 5)
        => LET ip == loc[t].client_ip
               before == DelayInForce(failed_attempts, hist, ip)
               after == DelayInForce(failed_attempts', hist', ip)
           IN  /\ ~decision'[t].allowed
               /\ after = IF before = 0 THEN 1 ELSE 2 * before]_vars

\* C14, amended: every wrong-credential request from one IP is denied.  One made
\* before next_allowed_time of the record of its IP is denied as throttled and
\* leaves the record as it is.  Otherwise it is denied as invalid and recorded:
\* the i-th recorded in a row (no success in between, i <= 5) leaves the record
\* (i, t + 2^(i-1) s), t the time of recording: delays of 1, 2, 4, 8, 16 s, each
\* longer than the one before.
C14_RecordedFailureRaisesDelay ==
    [][\A t \in Threads :
        (/\ WrongCredential(t)
         /\ StepOf(t)
         /\ pc'[t] = "done"
         /\ hist[loc[t].client_ip].failures < 5)
        => LET ip == loc[t].client_ip
               i == hist[ip].failures + 1
               before == DelayInForce(failed_attempts, hist, ip)
               after == DelayInForce(failed_attempts', hist', ip)
           IN  IF pc[t] = "check"
               THEN /\ decision'[t] = Deny(ReasonThrottled)
                    /\ loc[t].current_time < Record(ip)[2]
                    /\ failed_attempts' = failed_attempts
               ELSE /\ decision'[t] = Deny(ReasonInvalid)
                    /\ failed_attempts'[ip] = <<i, now + 2 ^ (i - 1)>>
                    /\ after = 2 ^ (i - 1)
                    /\ after > before]_vars

\* C14 witness: the fifth wrong-credential request recorded in a row, each made
\* after the delay of the one before had elapsed; the delay in force is 16 s
C14_Witness ==
    \E t \in Threads :
        /\ WrongCredential(t)
        /\ decision[t] = Deny(ReasonInvalid)
        /\ hist[loc[t].client_ip].failures = 5
        /\ hist[loc[t].client_ip].last = 4 * CoarseStep
        /\ DelayInForce(failed_attempts, hist, loc[t].client_ip) = 16

\* the Authorization value without a leading "Bearer ", the whole value otherwise
Credential(auth_header) ==
    IF StartsWithBearer(auth_header)
    THEN SubSeq(auth_header, 3, Len(auth_header))
    ELSE auth_header

\* C15: the credential a request presents is its Authorization value without the
\* leading "Bearer " when it starts with it, the whole value otherwise; the
\* comparison accepts a header "Bearer X" if and only if X is the stored secret,
\* for every X, with spaces or empty.
C15_BearerAcceptedIffEqual ==
    /\ [](\A t \in Threads :
            ("header" \in PathOf(t) /\ req[t].auth # NoText)
            => loc[t].token = Credential(req[t].auth))
    /\ [][\A t \in Threads :
            (pc[t] = "compare" /\ StepOf(t) /\ StartsWithBearer(req[t].auth))
            => (pc'[t] = "reset_lock" <=> Credential(req[t].auth) = store.secret)]_vars

\* the reasons is_client_token_valid returns with a denial
DenialReasons ==
    {ReasonNoIp, ReasonThrottled, ReasonNoHeader, ReasonNoSecret, ReasonNoExpiry,
     ReasonExpired, ReasonBadExpiry, ReasonInvalid}

\* C16: every call of is_client_token_valid that ends, ends by returning a
\* decision, allowed or denied with a reason, whatever the Authorization and
\* X-Forwarded-For values of the request: no exception leaves the call.
C16_NeverRaises ==
    \A t \in Threads :
        Returned(t) => decision[t] \in {Allow} \cup {Deny(r) : r \in DenialReasons}

\* a call that returned from the throttle check
DeniedAsThrottled(t) ==
    Returned(t) /\ steps[t] = <<"client_ip", "throttle">> /\ ~decision[t].allowed

\* C17: the value returned to a throttled request tells the remaining wait,
\* next_allowed_time - current_time: two throttled calls whose remaining waits
\* differ return different values.
C17_ThrottledCarriesWait ==
    \A t, u \in Threads :
        (/\ DeniedAsThrottled(t)
         /\ DeniedAsThrottled(u)
         /\ loc[t].remaining_time # loc[u].remaining_time)
        => decision[t] # decision[u]

\* the addresses written as entries of a comma-separated configuration
ValidEntries(config) ==
    LET parts == Split(config, ",")
        written == {x \in IpTexts : \E i \in 1..Len(parts) : Strip(parts[i]) = <<x>>}
    IN  {IpNormalForm(x) : x \in written}

\* C18: once computed, the trusted-proxy set is the set of the addresses of the
\* valid IP entries of TRUSTED_PROXY_IPS: every member is an IP address, an
\* entry that is none ("bogus", an empty entry) is skipped and the entries after
\* it still count; an empty or blank configuration gives the empty set, and
\* then every request resolves to its direct peer.
C18_TrustedSetIsValidEntries ==
    \A self \in Instances :
        proxy_cache[self] # NotCached
        => /\ proxy_cache[self] \subseteq IpTexts
           /\ "bogus" \notin proxy_cache[self]
           /\ proxy_cache[self] = ValidEntries(env_proxies)
           /\ (env_proxies = <<" ", "10.0.0.1", " ", ",", "bogus", ",", ",", "::0001">>
               => proxy_cache[self] = {"10.0.0.1", "::1"})
           /\ (env_proxies \in {<<>>, <<" ">>}
               => /\ proxy_cache[self] = {}
                  /\ \A t \in Threads : Called(t) => loc[t].client_ip = req[t].peer)

\* C18 witness: a configuration with a malformed and an empty entry between two
\* valid ones, and a request from one of the two resolved through X-Forwarded-For
C18_Witness ==
    \E t \in Threads :
        /\ env_proxies = <<" ", "10.0.0.1", " ", ",", "bogus", ",", ",", "::0001">>
        /\ TrustedFor(t) = {"10.0.0.1", "::1"}
        /\ req[t].peer = "::1"
        /\ loc[t].client_ip = "203.0.113.5"

\* the steps of a call in the order of the code; the last one is "record" or "reset"
StepOrder(last) ==
    <<"client_ip", "throttle", "header", "get_secret", "get_expiry", "compare", last>>
IsPrefix(p, q) == Len(p) <= Len(q) /\ p = SubSeq(q, 1, Len(p))

\* the first check to fail after the throttle check, by the request, the keyring
\* and the time the call sampled; "compare" when none of them fails
FirstFailure(t) ==
    IF req[t].auth = NoText THEN ReasonNoHeader
    ELSE IF store.secret = NoText THEN ReasonNoSecret
    ELSE IF store.expiry = NoValue THEN ReasonNoExpiry
    ELSE IF store.expiry = "soon" THEN ReasonBadExpiry
    ELSE IF store.expiry = "1" /\ loc[t].current_time > 1 THEN ReasonExpired
    ELSE "compare"

\* C20: the steps of a call are taken in the order IP resolution, throttle
\* check, header, secret, expiry, comparison, and a call that returns a denial
\* returns at the first step that fails, with its reason: without client IP
\* after the first step; throttled after the second, whatever the header and
\* the keyring; otherwise with the reason of the first of missing header,
\* missing secret, missing expiry, malformed expiry, expired secret that holds;
\* and only when none holds is the credential compared.
C20_FirstFailureDecides ==
    /\ [](\A t \in Threads :
            \/ IsPrefix(steps[t], StepOrder("record"))
            \/ IsPrefix(steps[t], StepOrder("reset")))
    /\ [](\A t \in Threads :
            (Returned(t) /\ decision[t] # Raised)
            => CASE Len(steps[t]) = 1 -> decision[t] = Deny(ReasonNoIp)
                 [] Len(steps[t]) = 2 -> decision[t] = Deny(ReasonThrottled)
                 [] Len(steps[t]) \in 3..5 ->
                        /\ decision[t] = Deny(FirstFailure(t))
                        /\ decision[t].reason \in
                              CASE Len(steps[t]) = 3 -> {ReasonNoHeader}
                                [] Len(steps[t]) = 4 -> {ReasonNoSecret}
                                [] OTHER -> {ReasonNoExpiry, ReasonBadExpiry, ReasonExpired}
                 [] OTHER ->
                        /\ Len(steps[t]) = 7
                        /\ FirstFailure(t) = "compare"
                        /\ decision[t] \in {Allow, Deny(ReasonInvalid)})
    /\ [][\A t \in Threads :
            (pc[t] = "check" /\ StepOf(t))
            => IF /\ HasRecord(loc[t].client_ip)
                  /\ loc[t].current_time < Record(loc[t].client_ip)[2]
               THEN pc'[t] = "done" /\ decision'[t] = Deny(ReasonThrottled)
               ELSE pc'[t] = "header"]_vars

\* C20 witness: a wrong credential while the stored secret has expired, denied as expired
C20_Witness ==
    \E t \in Threads :
        /\ Returned(t)
        /\ req[t].auth = Bearer("wrong")
        /\ store = KeyringEntries(Secret, "1")
        /\ loc[t].current_time = 2
        /\ decision[t] = Deny(ReasonExpired)

\* C21: the throttle check is read-only: no step of a call up to and including
\* its throttle check changes the map of failure records, so a request denied
\* as throttled leaves the record of its IP with the same attempt_count and the
\* same next_allowed_time, however many requests are denied while it throttles.
C21_ThrottleCheckReadOnly ==
    /\ [][\A t \in Threads :
            (StepOf(t) /\ pc[t] \in {"idle", "resolve", "check_lock", "check"})
            => /\ failed_attempts' = failed_attempts
               /\ hist' = hist]_vars
    /\ [][\A t \in Threads :
            (StepOf(t) /\ pc'[t] = "done" /\ decision'[t] = Deny(ReasonThrottled))
            => /\ HasRecord(loc[t].client_ip)
               /\ failed_attempts'[loc[t].client_ip] = Record(loc[t].client_ip)]_vars

\* C21 witness: two requests denied as throttled by the record of one failure,
\* which still counts one failure and still ends one second after it
C21_Witness ==
    \E t, u \in Threads :
        /\ t # u
        /\ DeniedAsThrottled(t) /\ DeniedAsThrottled(u)
        /\ loc[t].client_ip = loc[u].client_ip
        /\ HasRecord(loc[t].client_ip)
        /\ hist[loc[t].client_ip].failures = 1
        /\ Record(loc[t].client_ip) = <<1, hist[loc[t].client_ip].last + 1>>

\* C22: every step that records a failure for an IP that has a record writes a
\* record with attempt_count one more and next_allowed_time not earlier than
\* before, under every interleaving of the threads; only the step of
\* _reset_failed_attempts ends such a run, and the clock never goes back.
C22_RecordGrowsMonotonically ==
    /\ [][\A ip \in DOMAIN failed_attempts :
            \/ failed_attempts' = failed_attempts
            \/ /\ ip \in DOMAIN failed_attempts'
               /\ failed_attempts'[ip] = failed_attempts[ip]
            \/ /\ ip \in DOMAIN failed_attempts'
               /\ failed_attempts'[ip][1] = failed_attempts[ip][1] + 1
               /\ failed_attempts'[ip][2] >= failed_attempts[ip][2]
               /\ \E t \in Threads : pc[t] = "record_write" /\ pc'[t] = "done"
            \/ /\ ip \notin DOMAIN failed_attempts'
               /\ \E t \in Threads :
                    pc[t] = "reset" /\ pc'[t] = "done" /\ loc[t].client_ip = ip]_vars
    /\ [][now' >= now]_vars

\* C22 witness: a third failure recorded for one IP, at second 2, by requests of
\* two threads, some of which passed the throttle check before another recorded
C22_Witness ==
    \E ip \in DOMAIN failed_attempts :
        /\ Record(ip)[1] = 3
        /\ hist[ip].failures = 3
        /\ hist[ip].last = 2
        /\ Record(ip)[2] = 6

\* C23: a record exists for an IP only while at least one failure was recorded
\* for it since its last success (or since the start), and its attempt_count is
\* at least 1; the clock passing changes no record, and a record disappears
\* only by the reset step of an allowed request from its IP; so a failure
\* recorded after next_allowed_time has passed counts one more than the record.
C23_RecordLifecycle ==
    /\ [](\A ip \in DOMAIN failed_attempts :
            hist[ip].failures >= 1 /\ Record(ip)[1] >= 1)
    /\ [][now' # now => failed_attempts' = failed_attempts]_vars
    /\ [][\A ip \in DOMAIN failed_attempts :
            ip \notin DOMAIN failed_attempts'
            => \E t \in Threads :
                 /\ pc[t] = "reset"
                 /\ loc[t].client_ip = ip
                 /\ decision'[t] = Allow]_vars
    /\ [][\A t \in Threads :
            (/\ pc[t] = "record_write" /\ StepOf(t)
             /\ HasRecord(loc[t].client_ip)
             /\ now >= Record(loc[t].client_ip)[2])
            => failed_attempts'[loc[t].client_ip][1] = Record(loc[t].client_ip)[1] + 1]_vars

\* C23 witness: a failure at second 0, its delay of 1 s long elapsed, and a
\* second failure at second CoarseStep recorded as the second
C23_Witness ==
    \E ip \in DOMAIN failed_attempts :
        /\ hist[ip].failures = 2
        /\ hist[ip].last = CoarseStep
        /\ Record(ip) = <<2, CoarseStep + 2>>

\* the positions inside a with self._attempt_lock block
CriticalSections == {"check", "record_read", "record_write", "reset"}

\* C24: a thread holds the lock exactly while it is inside the throttle check,
\* _record_failed_attempt or _reset_failed_attempts: never while it reads the
\* header, the secret or the expiry, while it compares, or after it returned;
\* and each step that leaves one of the three blocks frees the lock, the return
\* of the throttled denial included.
C24_LockOnlyInCriticalSections ==
    /\ [](lock \in Threads \cup {NoThread})
    /\ [](\A t \in Threads : lock = t <=> pc[t] \in CriticalSections)
    /\ [][\A t \in Threads :
            (pc[t] \in CriticalSections /\ pc'[t] \notin CriticalSections)
            => lock = t /\ lock' = NoThread]_vars
    /\ [][\A t \in Threads :
            (pc'[t] = "done" /\ StepOf(t)) => lock' # t]_vars

\* C24 witness: a request has returned its throttled denial and another thread
\* is inside the throttle check, holding the lock
C24_Witness ==
    \E t, u \in Threads :
        /\ DeniedAsThrottled(t)
        /\ pc[u] = "check"
        /\ lock = u

\* the longest delay of a record
MaxDelay == BackoffSeconds(7)

\* C25: next_allowed_time of a record is at most 60 s after the failure that
\* wrote it, and a throttle check made at or after next_allowed_time lets the
\* request through to the header, the keyring and the comparison.  With the
\* clock advancing and the client sending requests, a record whose 60 s fit
\* into the time of the model leads to a request of its IP at the comparison,
\* unless another failure is recorded for that IP before.
C25_ThrottlingEnds ==
    /\ [](\A ip \in DOMAIN failed_attempts :
            Record(ip)[2] <= hist[ip].last + MaxDelay)
    /\ [][\A t \in Threads :
            (/\ pc[t] = "check" /\ StepOf(t)
             /\ HasRecord(loc[t].client_ip)
             /\ loc[t].current_time >= hist[loc[t].client_ip].last + MaxDelay)
            => pc'[t] = "header"]_vars
    /\ \A ip \in {"198.51.100.7"} : \A n \in 1..(CoarseTicks + 1) :
            (/\ HasRecord(ip)
             /\ hist[ip].failures = n
             /\ hist[ip].last + MaxDelay <= CoarseStep * CoarseTicks)
            ~> \/ \E t \in Threads : pc[t] = "compare" /\ loc[t].client_ip = ip
               \/ hist[ip].failures # n

\* C25 witness: a request at the comparison while its IP has a record of seven
\* failures, the delay of 60 s of the last one elapsed
C25_Witness ==
    \E t \in Threads :
        /\ pc[t] = "compare"
        /\ HasRecord(loc[t].client_ip)
        /\ Record(loc[t].client_ip) = <<7, hist[loc[t].client_ip].last + 60>>
        /\ loc[t].current_time >= Record(loc[t].client_ip)[2]

\* the trusted-proxy set has been computed for the AuthService object self
Computed(self) == proxy_cache[self] # NotCached

\* C26: the trusted-proxy set is computed once in the process: a computed set
\* never changes, every AuthService object of the process resolves with the
\* set of the first computation, and so the client IP of every request is the
\* one that set gives, whatever TRUSTED_PROXY_IPS has become since.
C26_TrustedSetComputedOnce ==
    /\ [][\A self \in Instances :
            Computed(self) => proxy_cache'[self] = proxy_cache[self]]_vars
    /\ [](\A self, other \in Instances :
            (Computed(self) /\ Computed(other))
            => proxy_cache[self] = proxy_cache[other])
    /\ [](\A t \in Threads : \A self \in Instances :
            (Called(t) /\ Computed(self))
            => loc[t].client_ip = GetClientIp(req[t], proxy_cache[self]))

\* C27: what a call returns and logs does not depend on the credential or the
\* secret beyond their being equal or not: every call that compared a
\* credential differing from the secret took the same steps, those of a recorded
\* failure with their log lines, and returned the same constant denial.
C27_WrongCredentialsAlike ==
    \A t \in Threads :
        (/\ Returned(t)
         /\ "compare" \in PathOf(t)
         /\ loc[t].token # loc[t].secret)
        => /\ decision[t] = Deny(ReasonInvalid)
           /\ steps[t] = StepOrder("record")

\* C28: a call returns one decision, at its last step and not before: allowed
\* with no reason (True, None), or denied with one of the non-empty reasons of
\* the code; a reason is there if and only if the request is denied.
C28_OneWellFormedDecision ==
    /\ [](\A t \in Threads :
            (Returned(t) /\ decision[t] # Raised)
            => /\ decision[t].allowed \in BOOLEAN
               /\ decision[t].allowed <=> decision[t].reason = NoValue
               /\ ~decision[t].allowed
                  => decision[t].reason \in DenialReasons \ {"", NoValue})
    /\ [](\A t \in Threads : ~Returned(t) => decision[t] = NoDecision)
    /\ [][\A t \in Threads :
            decision'[t] # decision[t]
            => \/ pc[t] # "done" /\ pc'[t] = "done" /\ decision[t] = NoDecision
               \/ pc[t] = "done" /\ pc'[t] = "idle" /\ decision'[t] = NoDecision]_vars

\* C28 witness: a call that went through every step and returned (True, None)
C28_Witness ==
    \E t \in Threads :
        /\ Returned(t)
        /\ steps[t] = StepOrder("reset")
        /\ decision[t].allowed
        /\ decision[t].reason = NoValue

\* the map of failure records without the records of the IPs other than ip
OwnRecord(attempts, ip) == [i \in DOMAIN attempts \cap {ip} |-> attempts[i]]

\* C29: a step of a call resolved to one client IP creates, changes and deletes
\* no record of another IP, and what the call does depends on the record of
\* its own IP only: the throttle check denies exactly when that record
\* throttles, and a recorded failure counts on from that record, whatever
\* records other IPs have and whatever the other threads do.
C29_PerIpIsolation ==
    /\ [][\A t \in Threads :
            StepOf(t)
            => \A ip \in IpTexts \ {loc[t].client_ip} :
                 /\ ip \in DOMAIN failed_attempts' <=> ip \in DOMAIN failed_attempts
                 /\ ip \in DOMAIN failed_attempts
                    => failed_attempts'[ip] = failed_attempts[ip]]_vars
    /\ [][\A t \in Threads :
            (pc[t] = "check" /\ StepOf(t))
            => LET own == OwnRecord(failed_attempts, loc[t].client_ip)
               IN  decision'[t] = Deny(ReasonThrottled)
                   <=> /\ own # <<>>
                       /\ loc[t].current_time < own[loc[t].client_ip][2]]_vars
    /\ [][\A t \in Threads :
            (pc[t] = "record_write" /\ StepOf(t))
            => LET own == OwnRecord(failed_attempts, loc[t].client_ip)
               IN  failed_attempts'[loc[t].client_ip][1] =
                       IF own = <<>> THEN 1 ELSE own[loc[t].client_ip][1] + 1]_vars

\* C29 witness: the client 198.51.100.7 is allowed by a request made while the
\* record of 203.0.113.5 throttles that client, and that record is still there
C29_Witness ==
    \E t \in Threads :
        /\ decision[t] = Allow
        /\ loc[t].client_ip = "198.51.100.7"
        /\ HasRecord("203.0.113.5")
        /\ ~HasRecord("198.51.100.7")
        /\ loc[t].current_time >= hist["203.0.113.5"].last
        /\ loc[t].current_time < Record("203.0.113.5")[2]

\* C30: the setup run on a keyring without server secret leaves both the
\* secret and its expiry in the keyring, so a request that passed the throttle
\* check, found a secret in the keyring and presents that secret is allowed.
C30_SetupThenAllowed ==
    /\ [][(store.secret = NoText /\ store'.secret # NoText)
            => store'.expiry # NoValue]_vars
    /\ [](\A t \in Threads :
            (/\ Returned(t)
             /\ "get_secret" \in PathOf(t)
             /\ loc[t].secret # NoText
             /\ loc[t].token = loc[t].secret)
            => decision[t] = Allow)

====
